---- MODULE Spec2Model ----
(***************************************************************************)
(* Model of gui/mozregui/bisection.py: the GUI bisection sequencer         *)
(* (GuiBisector), its download manager (GuiBuildDownloadManager), its      *)
(* evaluation gate (GuiTestRunner) and the run controller (BisectRunner).  *)
(*                                                                         *)
(* Execution contexts:                                                     *)
(*   - the main (GUI) thread: user calls bisect()/stop() and the slots of  *)
(*     BisectRunner, served from the main event queue mq;                  *)
(*   - one worker QThread per run, serving the queue wq[r] of posted slot  *)
(*     invocations (QTimer.singleShot) of that run's GuiBisector;          *)
(*   - the download threads, one per tracked download.                     *)
(* Following the comments at lines 146-147 and 158-159 of the source,      *)
(* _build_dl_finished and _evaluate_finished run directly in the context   *)
(* that emits the signal, and hand the next step over to the worker        *)
(* thread with QTimer.singleShot.                                          *)
(***************************************************************************)
EXTENDS Integers, Sequences, FiniteSets

\* ----------------------------------------------------------------- bounds
MaxRuns == 2      \* GuiBisector objects created by BisectRunner.bisect
MaxSteps == 2     \* steps after which the handler stops answering RUNNING
MaxBuilds == 3    \* destinations known to a download manager used on its own

Runs == 1..MaxRuns
Builds == 1..MaxBuilds

\* ----------------------------------------------------------- result codes
RUNNING == "RUNNING"
NO_DATA == "NO_DATA"
FINISHED == "FINISHED"
EXCEPTION == "EXCEPTION"
TerminalCodes == {NO_DATA, FINISHED}

VARIABLES
    bisector,     \* BisectRunner.bisector: 0 is None, else the run
    thread,       \* BisectRunner.thread: 0 is None, else the run it serves
    mainpc,       \* position of the main thread inside stop()/bisect()
    nruns,        \* number of GuiBisector objects created so far
    mq,           \* event queue of the main thread (queued signals)
    running,      \* running[r]: state of run r's QThread
    wq,           \* wq[r]: slot invocations posted to run r's worker thread
    wpc,          \* wpc[r]: position of the worker inside _bisect_next
    step_num,     \* GuiBisector._step_num
    mid,          \* GuiBisector.mid (0 is None)
    build_path,   \* GuiBisector.build_infos['build_path'] (0 is absent)
    error,        \* GuiBisector.error is set
    result,       \* last result code computed by the sequencer
    launcher,     \* GuiTestRunner.launcher is set
    verdict,      \* GuiTestRunner.verdict
    app_info,     \* GuiTestRunner.app_info: the build launched (0 is {})
    downloads,    \* downloads[r]: tracked downloads of run r's manager
    trace,        \* trace[r]: the signals emitted by run r, in order
    fault,        \* exception raised by the BisectRunner slot last served
    dialog,       \* dialog shown by the BisectRunner slot last served
    lastCall      \* last call made on a download manager used on its own

vars == <<bisector, thread, mainpc, nruns, mq, running, wq, wpc, step_num,
          mid, build_path, error, result, launcher, verdict, app_info,
          downloads, trace, fault, dialog, lastCall>>

ctlVars == <<bisector, thread, mainpc, nruns>>
seqVars == <<step_num, mid, build_path, error, result>>
gateVars == <<launcher, verdict, app_info>>

\* ----------------------------------------------------------------- events
EvStarted == [type |-> "started"]
EvStepStarted(i) == [type |-> "step_started", index |-> i]
EvStepBuildFound(i, b) == [type |-> "step_build_found", index |-> i, build |-> b]
EvStepFinished(i, v) == [type |-> "step_finished", index |-> i, verdict |-> v]
EvFinished(c) == [type |-> "finished", code |-> c]
EvDownloadStarted(d) == [type |-> "download_started", dest |-> d]
EvDownloadFinished(d, c, e) ==
    [type |-> "download_finished", dest |-> d, canceled |-> c, error |-> e]
EvEvaluateStarted == [type |-> "evaluate_started"]
EvEvaluateFinished == [type |-> "evaluate_finished"]

\* A signal queued for a slot of BisectRunner (main thread).
Queued(sig, r, c) == [sig |-> sig, run |-> r, code |-> c]

\* ------------------------------------------------- download manager (pure)
Download(d, c) == [dest |-> d, canceled |-> c]

\* BuildDownloadManager.cancel(cancel_if), sel being the tracked downloads
\* cancel_if selects: cooperative, sets the flag only.
cancel(dls, sel) ==
    {IF dl \in sel THEN Download(dl.dest, TRUE) ELSE dl : dl \in dls}

\* BuildDownloadManager.download: the tracked download of dest, or a new one.
Tracked(dls, dest) == \E dl \in dls : dl.dest = dest
download(dls, dest) ==
    IF Tracked(dls, dest) THEN dls ELSE dls \cup {Download(dest, FALSE)}

\* get_dest(fname) of a build: one destination per build.
get_dest(b) == b

\* The predicate of focus_download (line 36).
cancel_if_same_dest(dest, dl) == dest = dl.dest
cancel_if(dest, dl) == dest # dl.dest

\* GuiBuildDownloadManager.focus_download, lines 32-38: the tracked set after.
focus_download(dls, b) ==
    LET dest == get_dest(b)
    IN  download(cancel(dls, {dl \in dls : cancel_if(dest, dl)}), dest)

\* GuiBuildDownloadManager._download_started (line 24): the signal emitted
\* when download() starts a new download.
DownloadStartedEvents(dls, b) ==
    IF Tracked(dls, get_dest(b)) THEN << >> ELSE <<EvDownloadStarted(get_dest(b))>>

\* ------------------------------------------------------------------ Init
\* A call on the download manager: its name, the build or destination it
\* is about and, for a completion, the flags of the download.
Call(op, b, c, e) == [op |-> op, build |-> b, canceled |-> c, error |-> e]

InitRun ==
    /\ bisector = 0
    /\ thread = 0
    /\ mainpc = "idle"
    /\ nruns = 0
    /\ mq = << >>
    /\ running = [r \in Runs |-> "none"]
    /\ wq = [r \in Runs |-> << >>]
    /\ wpc = [r \in Runs |-> "idle"]
    /\ step_num = [r \in Runs |-> 0]
    /\ mid = [r \in Runs |-> 0]
    /\ build_path = [r \in Runs |-> 0]
    /\ error = [r \in Runs |-> FALSE]
    /\ result = [r \in Runs |-> RUNNING]
    /\ launcher = [r \in Runs |-> FALSE]
    /\ verdict = [r \in Runs |-> "None"]
    /\ app_info = [r \in Runs |-> 0]
    /\ trace = [r \in Runs |-> << >>]
    /\ fault = ""
    /\ dialog = ""
    /\ lastCall = Call("none", 0, FALSE, FALSE)

\* BisectRunner.__init__: no run, no thread; nothing is tracked.
Init ==
    /\ InitRun
    /\ downloads = [r \in Runs |-> {}]

\* ------------------------------------------------------- external handler
\* Codes Bisection.init_handler / handle_verdict may answer: the handler's
\* range is finite, it stops answering RUNNING after MaxSteps verdicts.
InitCodes == TerminalCodes \cup {RUNNING}
VerdictCodes(n) == IF n < MaxSteps THEN TerminalCodes \cup {RUNNING} ELSE TerminalCodes
Verdicts == {"g", "b"}
\* Bisection.search_mid_point: the handler never proposes a build twice in
\* a run (the range shrinks at every verdict); builds are named by the step
\* that selects them.
search_mid_point(n) == n

\* ------------------------------------------------------------ reclaiming
\* A GuiBisector is reclaimed as soon as nothing refers to it any more: its
\* thread has exited, BisectRunner has released it (lines 212, 216), none of
\* its downloads is still running and none of its signals is still queued.
\* From then on no slot of it can run and no event of it can be observed.
Collectable(r) ==
    /\ running[r] = "exited"
    /\ bisector # r
    /\ thread # r
    /\ downloads[r] = {}
    /\ \A i \in 1..Len(mq) : mq[i].run # r
Garbage == \E r \in Runs : Collectable(r)

collect ==
    /\ Garbage
    /\ LET G == {r \in Runs : Collectable(r)}
           Reset(f, v) == [r \in Runs |-> IF r \in G THEN v ELSE f[r]]
       IN  /\ running' = Reset(running, "collected")
           /\ wq' = Reset(wq, << >>)
           /\ step_num' = Reset(step_num, 0)
           /\ mid' = Reset(mid, 0)
           /\ build_path' = Reset(build_path, 0)
           /\ error' = Reset(error, FALSE)
           /\ result' = Reset(result, RUNNING)
           /\ launcher' = Reset(launcher, FALSE)
           /\ verdict' = Reset(verdict, "None")
           /\ app_info' = Reset(app_info, 0)
           /\ trace' = Reset(trace, << >>)
    /\ UNCHANGED <<ctlVars, mq, wpc, downloads, fault, dialog, lastCall>>

\* ------------------------------------------------------------- sequencer
\* The worker thread of run r is about to serve the posted slot `slot`.
Serves(r, slot) ==
    /\ ~Garbage
    /\ running[r] = "running"
    /\ wpc[r] = "idle"
    /\ wq[r] # << >>
    /\ Head(wq[r]) = slot

\* sys.exc_info() inside the except clause (line 93): an error is captured.
exc_info_dropped == FALSE
exc_info == TRUE

\* GuiBisector._finish_on_exception, after the events evs of the same slot.
finish_on_exception(r, evs) ==
    /\ error' = [error EXCEPT ![r] = exc_info]
    /\ result' = [result EXCEPT ![r] = EXCEPTION]
    /\ trace' = [trace EXCEPT ![r] = @ \o evs \o <<EvFinished(EXCEPTION)>>]
    /\ mq' = Append(mq, Queued("finished", r, EXCEPTION))

\* line 115: self.started.emit(self.bisection)
started_events_omitted == << >>
started_events == <<EvStarted>>

\* GuiBisector.bisect (slot, worker thread): Bisector.bisect either raises
\* MozRegressionError while fetching the build data, or calls _bisect.
GuiBisector_bisect(r) ==
    /\ Serves(r, "bisect")
    /\ \/ /\ finish_on_exception(r, << >>)
          /\ wq' = [wq EXCEPT ![r] = Tail(@)]
          /\ UNCHANGED step_num
       \/ /\ step_num' = [step_num EXCEPT ![r] = 0]
          /\ trace' = [trace EXCEPT ![r] = @ \o started_events]
          /\ mq' = Append(mq, Queued("started", r, ""))
          /\ wq' = [wq EXCEPT ![r] = Append(Tail(@), "_bisect_next")]
          /\ UNCHANGED <<error, result>>
    /\ UNCHANGED <<ctlVars, running, wpc, mid, build_path, gateVars,
                   downloads, fault, dialog, lastCall>>

\* line 121: self._step_num += 1
next_step_num_same(n) == n
next_step_num(n) == n + 1

\* line 129: the step goes on to the download iff init_handler says RUNNING.
init_running_always(code) == TRUE
init_running(code) == code = RUNNING

\* GuiBisector._bisect_next (slot, worker thread), lines 119-38: up to the
\* return of download() inside focus_download.
bisect_next(r) ==
    /\ Serves(r, "_bisect_next")
    /\ wq' = [wq EXCEPT ![r] = Tail(@)]
    /\ LET n == next_step_num(step_num[r])
           pre == <<EvStepStarted(n)>>
       IN  /\ step_num' = [step_num EXCEPT ![r] = n]
           /\ \/ \* search_mid_point raises MozRegressionError
                 /\ finish_on_exception(r, pre)
                 /\ UNCHANGED <<mid, build_path, downloads, wpc>>
              \/ \E m \in {search_mid_point(n)}, code \in InitCodes :
                    /\ mid' = [mid EXCEPT ![r] = m]
                    /\ result' = [result EXCEPT ![r] = code]
                    /\ UNCHANGED error
                    /\ IF ~init_running(code)
                       THEN /\ trace' = [trace EXCEPT ![r] = @ \o pre \o <<EvFinished(code)>>]
                            /\ mq' = Append(mq, Queued("finished", r, code))
                            /\ UNCHANGED <<build_path, downloads, wpc>>
                       ELSE \* a fresh build_infos, then focus_download
                            /\ build_path' = [build_path EXCEPT ![r] = 0]
                            /\ downloads' = [downloads EXCEPT ![r] = focus_download(@, m)]
                            /\ trace' = [trace EXCEPT ![r] =
                                           @ \o pre \o DownloadStartedEvents(downloads[r], m)]
                            /\ wpc' = [wpc EXCEPT ![r] = "focus"]
                            /\ UNCHANGED mq
    /\ UNCHANGED <<ctlVars, running, gateVars, fault, dialog, lastCall>>

\* GuiBisector._bisect_next inside focus_download, line 41: the destination
\* is recorded in build_infos once download() has returned.
bisect_next_path(r) ==
    /\ ~Garbage
    /\ running[r] = "running"
    /\ wpc[r] = "focus"
    /\ build_path' = [build_path EXCEPT ![r] = get_dest(mid[r])]
    /\ wpc' = [wpc EXCEPT ![r] = "found"]
    /\ UNCHANGED <<ctlVars, mq, running, wq, step_num, mid, error, result,
                   gateVars, downloads, trace, fault, dialog, lastCall>>

\* GuiBisector._bisect_next, lines 135-136: step_build_found is emitted.
bisect_next_found(r) ==
    /\ ~Garbage
    /\ running[r] = "running"
    /\ wpc[r] = "found"
    /\ trace' = [trace EXCEPT ![r] = Append(@, EvStepBuildFound(step_num[r], mid[r]))]
    /\ wpc' = [wpc EXCEPT ![r] = "idle"]
    /\ UNCHANGED <<ctlVars, mq, running, wq, seqVars, gateVars, downloads,
                   fault, dialog, lastCall>>

\* GuiTestRunner.evaluate, lines 57-60.
GuiTestRunner_evaluate(r) ==
    /\ launcher' = [launcher EXCEPT ![r] = TRUE]
    /\ app_info' = [app_info EXCEPT ![r] = mid[r]]
    /\ trace' = [trace EXCEPT ![r] = Append(@, EvEvaluateStarted)]
    /\ mq' = Append(mq, Queued("evaluate_started", r, ""))

\* GuiBisector._evaluate (slot, worker thread): Bisection.evaluate calls the
\* test runner's evaluate with self.build_infos.
evaluate(r) ==
    /\ Serves(r, "_evaluate")
    /\ wq' = [wq EXCEPT ![r] = Tail(@)]
    /\ GuiTestRunner_evaluate(r)
    /\ UNCHANGED <<ctlVars, running, wpc, seqVars, verdict, downloads,
                   fault, dialog, lastCall>>

\* GuiBisector._build_dl_finished, lines 148-154: the worker queue after the
\* completion of a download (dest, canceled, err) is signalled.
build_dl_finished_unchecked(q, path, dest, canceled, err) ==
    IF canceled \/ err THEN q ELSE Append(q, "_evaluate")
build_dl_finished_twice(q, path, dest, canceled, err) ==
    IF dest # path THEN q
    ELSE IF canceled \/ err THEN q
    ELSE q \o <<"_evaluate", "_evaluate">>
build_dl_finished_any_outcome(q, path, dest, canceled, err) ==
    IF dest # path THEN q ELSE Append(q, "_evaluate")
build_dl_finished(q, path, dest, canceled, err) ==
    IF dest # path THEN q
    ELSE IF canceled \/ err THEN q
    ELSE Append(q, "_evaluate")

\* A download thread ends: GuiBuildDownloadManager._download_finished emits
\* download_finished (served by _build_dl_finished) and the base class
\* stops tracking the download.
download_ends(r, dl, err) ==
    /\ ~Garbage
    /\ dl \in downloads[r]
    /\ dl.canceled => ~err
    /\ trace' = [trace EXCEPT ![r] =
                   Append(@, EvDownloadFinished(dl.dest, dl.canceled, err))]
    /\ wq' = [wq EXCEPT ![r] =
                build_dl_finished(@, build_path[r], dl.dest, dl.canceled, err)]
    /\ downloads' = [downloads EXCEPT ![r] = @ \ {dl}]
    /\ UNCHANGED <<ctlVars, mq, running, wpc, seqVars, gateVars, fault,
                   dialog, lastCall>>

\* A download of run r ends, with or without an error.
download_finished(r) ==
    \E dl \in downloads[r], err \in BOOLEAN : download_ends(r, dl, err)

\* lines 165-169: what _evaluate_finished posts and emits for a result.
after_verdict_post_always(q, code) == Append(q, "_bisect_next")
after_verdict_post(q, code) ==
    IF code # RUNNING THEN q ELSE Append(q, "_bisect_next")
after_verdict_events(code) ==
    IF code # RUNNING THEN <<EvFinished(code)>> ELSE << >>
after_verdict_queued(q, r, code) ==
    IF code # RUNNING THEN Append(q, Queued("finished", r, code)) ELSE q

\* GuiBisector._evaluate_finished, called from finish() through the
\* evaluate_finished signal, after the events evs of the same call.
evaluate_finished(r, v, evs) ==
    \E code \in VerdictCodes(step_num[r]) :
        /\ result' = [result EXCEPT ![r] = code]
        /\ trace' = [trace EXCEPT ![r] =
                       @ \o evs \o <<EvStepFinished(step_num[r], v)>>
                         \o after_verdict_events(code)]
        /\ mq' = after_verdict_queued(Tail(mq), r, code)
        /\ wq' = [wq EXCEPT ![r] = after_verdict_post(@, code)]

\* line 63: assert self.launcher
finish_assert_skipped(l) == TRUE
finish_assert(l) == l

\* line 67: self.launcher = None
launcher_after_finish_kept == TRUE
launcher_after_finish == FALSE

\* GuiTestRunner.finish(verdict) on the gate of run r, called while serving
\* the head of mq.
finish(r, v) ==
    IF ~finish_assert(launcher[r])
    THEN /\ fault' = "AssertionError"
         /\ mq' = Tail(mq)
         /\ UNCHANGED <<wq, result, trace, launcher, verdict>>
    ELSE /\ verdict' = [verdict EXCEPT ![r] = v]
         /\ evaluate_finished(r, v, <<EvEvaluateFinished>>)
         /\ launcher' = [launcher EXCEPT ![r] = launcher_after_finish]
         /\ fault' = ""

\* ------------------------------------------------------------ controller
\* BisectRunner.stop, lines 210-212: cancel every download of the current
\* run and release the run handle.
stop_cancel ==
    /\ downloads' = [r \in Runs |->
                       IF r = bisector THEN cancel(downloads[r], downloads[r])
                       ELSE downloads[r]]
    /\ bisector' = 0

\* BisectRunner.stop, lines 213-216: quit the worker thread's event loop,
\* wait for the slot it is serving to return, release the thread.
stop_join ==
    /\ ~Garbage
    /\ mainpc \in {"stop_join", "bisect_join"}
    /\ thread # 0 => wpc[thread] = "idle"
    /\ running' = [r \in Runs |-> IF r = thread THEN "exited" ELSE running[r]]
    /\ thread' = 0
    /\ mainpc' = IF mainpc = "bisect_join" THEN "bisect_create" ELSE "idle"
    /\ UNCHANGED <<bisector, nruns, mq, wq, wpc, seqVars, gateVars,
                   downloads, trace, fault, dialog, lastCall>>

\* The user calls BisectRunner.stop(): lines 210-212.
stop ==
    /\ ~Garbage
    /\ mainpc = "idle"
    /\ stop_cancel
    /\ mainpc' = "stop_join"
    /\ UNCHANGED <<thread, nruns, mq, running, wq, wpc, seqVars, gateVars,
                   trace, fault, dialog, lastCall>>

\* A run whose worker, downloads or queued signals may still act.
Alive(r) == running[r] \in {"running", "exited"}

\* The user calls BisectRunner.bisect(): line 182, the stop() it starts with.
\* The user waits until at most one run is still alive, so that no more
\* than two runs ever overlap.
bisect ==
    /\ ~Garbage
    /\ mainpc = "idle"
    /\ nruns < MaxRuns
    /\ \A r1, r2 \in Runs : Alive(r1) /\ Alive(r2) => r1 = r2
    /\ stop_cancel
    /\ mainpc' = "bisect_join"
    /\ UNCHANGED <<thread, nruns, mq, running, wq, wpc, seqVars, gateVars,
                   trace, fault, dialog, lastCall>>

\* BisectRunner.bisect, lines 183-206: a new GuiBisector and QThread, the
\* thread started, GuiBisector.bisect posted to it.
bisect_create ==
    /\ ~Garbage
    /\ mainpc = "bisect_create"
    /\ LET r == nruns + 1
       IN  /\ nruns' = r
           /\ bisector' = r
           /\ thread' = r
           /\ running' = [running EXCEPT ![r] = "running"]
           /\ wq' = [wq EXCEPT ![r] = <<"bisect">>]
    /\ mainpc' = "idle"
    /\ UNCHANGED <<mq, wpc, seqVars, gateVars, downloads, trace, fault,
                   dialog, lastCall>>

\* The main thread is about to serve the queued signal sig.
MainServes(sig) ==
    /\ ~Garbage
    /\ mainpc = "idle"
    /\ mq # << >>
    /\ Head(mq).sig = sig

\* BisectRunner.on_bisection_started (slot, main thread).
on_bisection_started ==
    /\ MainServes("started")
    /\ mq' = Tail(mq)
    /\ fault' = ""
    /\ dialog' = ""
    /\ UNCHANGED <<ctlVars, running, wq, wpc, seqVars, gateVars, downloads,
                   trace, lastCall>>

\* BisectRunner.evaluate (slot, main thread): the verdict of the dialog is
\* given to the gate reached through self.bisector.
BisectRunner_evaluate ==
    /\ MainServes("evaluate_started")
    /\ \E v \in Verdicts :
          IF bisector = 0
          THEN /\ fault' = "AttributeError"
               /\ mq' = Tail(mq)
               /\ UNCHANGED <<wq, result, trace, launcher, verdict>>
          ELSE finish(bisector, v)
    /\ dialog' = "question"
    /\ UNCHANGED <<ctlVars, running, wpc, step_num, mid, build_path, error,
                   app_info, downloads, lastCall>>

\* BisectRunner.bisection_finished, lines 236-244: the dialog chosen for a
\* result code.
dialog_for(code) ==
    IF code = NO_DATA THEN "warning"
    ELSE IF code = EXCEPTION THEN "critical"
    ELSE "information"

\* BisectRunner.bisection_finished (slot, main thread): the message is
\* built (line 240 reads self.bisector.error[1]), the dialog is shown, then
\* stop() is called.
bisection_finished ==
    /\ MainServes("finished")
    /\ mq' = Tail(mq)
    /\ LET code == Head(mq).code
       IN  IF code = EXCEPTION /\ bisector = 0
           THEN /\ fault' = "AttributeError"
                /\ dialog' = ""
                /\ UNCHANGED <<bisector, mainpc, downloads>>
           ELSE IF code = EXCEPTION /\ ~error[bisector]
           THEN /\ fault' = "TypeError"
                /\ dialog' = ""
                /\ UNCHANGED <<bisector, mainpc, downloads>>
           ELSE /\ stop_cancel
                /\ mainpc' = "stop_join"
                /\ fault' = ""
                /\ dialog' = dialog_for(code)
    /\ UNCHANGED <<thread, nruns, running, wq, wpc, seqVars, gateVars,
                   trace, lastCall>>

\* ------------------------------------------------------------------ Next
Next ==
    \/ bisect
    \/ bisect_create
    \/ stop
    \/ stop_join
    \/ on_bisection_started
    \/ BisectRunner_evaluate
    \/ bisection_finished
    \/ \E r \in Runs : GuiBisector_bisect(r)
    \/ \E r \in Runs : bisect_next(r)
    \/ \E r \in Runs : bisect_next_path(r)
    \/ \E r \in Runs : bisect_next_found(r)
    \/ \E r \in Runs : evaluate(r)
    \/ \E r \in Runs : download_finished(r)
    \/ collect

Spec == Init /\ [][Next]_vars

\* ------------------------------------- the download manager on its own
\* The tracked sets a manager can hold: at most one download per destination
\* (the manager keys its downloads by destination).
TrackedSets ==
    {S \in SUBSET [dest : Builds, canceled : BOOLEAN] :
        \A a, b \in S : a.dest = b.dest => a = b}

InitDL ==
    /\ InitRun
    /\ \E S \in TrackedSets : downloads = [r \in Runs |-> IF r = 1 THEN S ELSE {}]

dlFrame == <<ctlVars, mq, running, wpc, step_num, mid, error, result,
             gateVars, trace, fault, dialog>>

\* focus_download(build_info), lines 32-41, on the manager of run 1.
dl_focus_download(b) ==
    /\ downloads' = [downloads EXCEPT ![1] = focus_download(@, b)]
    /\ build_path' = [build_path EXCEPT ![1] = get_dest(b)]
    /\ lastCall' = Call("focus_download", b, FALSE, FALSE)
    /\ UNCHANGED <<dlFrame, wq>>

\* BuildDownloadManager.download(url, fname): a download in the background.
dl_download(b) ==
    /\ downloads' = [downloads EXCEPT ![1] = download(@, get_dest(b))]
    /\ lastCall' = Call("download", b, FALSE, FALSE)
    /\ UNCHANGED <<dlFrame, wq, build_path>>

\* BuildDownloadManager.cancel(): every tracked download.
dl_cancel ==
    /\ downloads' = [downloads EXCEPT ![1] = cancel(@, @)]
    /\ lastCall' = Call("cancel", 0, FALSE, FALSE)
    /\ UNCHANGED <<dlFrame, wq, build_path>>

\* A download thread ends: _download_finished, lines 27-29, emits
\* download_finished (served by _build_dl_finished) and the manager stops
\* tracking the download. At most MaxSteps evaluations are left posted.
dl_finished ==
    \E dl \in downloads[1], err \in BOOLEAN :
        /\ dl.canceled => ~err
        /\ wq' = [wq EXCEPT ![1] =
                    build_dl_finished(@, build_path[1], dl.dest, dl.canceled, err)]
        /\ Len(wq'[1]) <= MaxSteps
        /\ downloads' = [downloads EXCEPT ![1] = @ \ {dl}]
        /\ lastCall' = Call("finished", dl.dest, dl.canceled, err)
        /\ UNCHANGED <<dlFrame, build_path>>

NextDL ==
    \/ \E b \in Builds : dl_focus_download(b)
    \/ \E b \in Builds : dl_download(b)
    \/ dl_cancel
    \/ dl_finished

SpecDL == InitDL /\ [][NextDL]_vars

\* ------------------------------------------- runs that are left to end
\* The user calls bisect() only when no run is held, and never stop(); no
\* download fails. The event loops of the two threads serve what is posted
\* to them and every download thread ends.
bisect_when_free ==
    /\ bisector = 0
    /\ thread = 0
    /\ bisect

\* A download of run r ends without an error.
download_succeeded(r) ==
    \E dl \in downloads[r] : download_ends(r, dl, FALSE)

WorkerNext(r) ==
    \/ GuiBisector_bisect(r)
    \/ bisect_next(r)
    \/ bisect_next_path(r)
    \/ bisect_next_found(r)
    \/ evaluate(r)

MainNext ==
    \/ bisect_create
    \/ stop_join
    \/ on_bisection_started
    \/ BisectRunner_evaluate
    \/ bisection_finished

NextLive ==
    \/ bisect_when_free
    \/ MainNext
    \/ \E r \in Runs : WorkerNext(r)
    \/ \E r \in Runs : download_succeeded(r)
    \/ collect

SpecLive ==
    /\ Init
    /\ [][NextLive]_vars
    /\ WF_vars(MainNext)
    /\ \A r \in Runs : WF_vars(WorkerNext(r))
    /\ \A r \in Runs : WF_vars(download_succeeded(r))
    /\ WF_vars(collect)

\* ------------------------------------------------------------ properties
\* The events of type t emitted by run r, in order.
Events(r, t) == SelectSeq(trace[r], LAMBDA e : e.type = t)
Count(r, t) == Len(Events(r, t))
\* The position of the first finished event of run r (0 when there is none).
FirstFinished(r) ==
    IF Count(r, "finished") = 0 THEN 0
    ELSE CHOOSE i \in 1..Len(trace[r]) :
            /\ trace[r][i].type = "finished"
            /\ \A j \in 1..(i - 1) : trace[r][j].type # "finished"
AllCanceled(r) == \A dl \in downloads[r] : dl.canceled

\* C1: in every run the indices carried by the step_started events are
\* 1, 2, 3, ... in that order, without gap or repeat.
C1_StepIndicesCountFromOne ==
    \A r \in Runs :
        \A i \in 1..Count(r, "step_started") :
            Events(r, "step_started")[i].index = i

\* A run that has started its second step.
C1_SecondStepStarted ==
    \E r \in Runs : Count(r, "step_started") >= 2

\* C2: right after focus_download(B) returns, at most one tracked download
\* is not cancelled and it targets B's destination; every tracked download
\* of another destination is cancelled.
C2_FocusLeavesOnlyTarget ==
    lastCall.op = "focus_download" =>
        LET dest == get_dest(lastCall.build)
            active == {dl \in downloads[1] : ~dl.canceled}
        IN  /\ Cardinality(active) <= 1
            /\ \A dl \in active : dl.dest = dest
            /\ \A dl \in downloads[1] : dl.dest # dest => dl.canceled
            /\ build_path[1] = dest

\* focus_download has returned with a download of another destination
\* tracked and cancelled, and the download of the target running.
C2_FocusCancelledAnother ==
    /\ lastCall.op = "focus_download"
    /\ \E dl \in downloads[1] : dl.dest # get_dest(lastCall.build) /\ dl.canceled
    /\ \E dl \in downloads[1] : dl.dest = get_dest(lastCall.build) /\ ~dl.canceled

\* C3: a run that has reached a terminal code has emitted finished exactly
\* once, with that code, and after it no step_started, step_build_found or
\* step_finished event, no download start and no evaluation start; a run
\* that has not reached one has emitted no finished event.
C3_FinishedExactlyOnce ==
    \A r \in Runs :
        IF result[r] = RUNNING THEN Count(r, "finished") = 0
        ELSE /\ Events(r, "finished") = <<EvFinished(result[r])>>
             /\ \A i \in (FirstFinished(r) + 1)..Len(trace[r]) :
                   trace[r][i].type \notin
                       {"step_started", "step_build_found", "step_finished",
                        "download_started", "evaluate_started", "finished"}

\* A run ended by handle_verdict: its finished event follows a verdict.
C3_FinishedAfterVerdict ==
    \E r \in Runs :
        /\ result[r] \in TerminalCodes
        /\ Count(r, "step_finished") >= 1
        /\ Count(r, "finished") = 1

\* The sequencer and gate events of a trace (not the download manager's).
RunEvents(t) ==
    SelectSeq(t, LAMBDA e : e.type \in
        {"step_started", "step_build_found", "step_finished",
         "evaluate_started", "finished"})
\* The main thread serves, in this step, a signal emitted by run r.
ServesSignalOf(r) ==
    /\ BisectRunner_evaluate \/ bisection_finished
    /\ Head(mq).run = r

\* C4: once stop() has returned (the worker thread of the run has exited)
\* every tracked download of the stopped run is cancelled, the run emits no
\* further step, evaluation or finished event and none of them is handled.
C4_NoActivityAfterStop ==
    /\ [](\A r \in Runs : running[r] = "exited" => AllCanceled(r))
    /\ [][\A r \in Runs : running[r] = "exited" =>
             /\ ~ServesSignalOf(r)
             /\ running'[r] = "exited" => RunEvents(trace'[r]) = RunEvents(trace[r])]_vars

\* Nothing is held: no run handle, no thread, no download left running.
ResourceFree ==
    /\ bisector = 0
    /\ thread = 0
    /\ \A r \in Runs : running[r] # "running" /\ AllCanceled(r)

\* C5: stop() leaves the controller resource-free, and a stop() called
\* when no run is active changes nothing.
C5_StopIdempotent ==
    [][/\ (stop_join /\ mainpc = "stop_join") => ResourceFree'
       /\ (stop /\ bisector = 0 /\ thread = 0) =>
             UNCHANGED <<bisector, thread, nruns, mq, running, wq, wpc,
                         seqVars, gateVars, downloads, trace>>]_vars

\* C6: when bisect() creates and starts the new worker thread, every prior
\* run is torn down (downloads cancelled, thread exited, handle released),
\* and afterwards exactly one thread runs.
C6_OneRunAtATime ==
    [][bisect_create =>
          /\ ResourceFree
          /\ Cardinality({r \in Runs : running'[r] = "running"}) = 1]_vars

\* C7: evaluate() is never invoked on a gate whose previous evaluation has
\* not been closed by finish().
C7_OneEvaluationInFlight ==
    [][\A r \in Runs :
          Count(r, "evaluate_started")' > Count(r, "evaluate_started")
             => ~launcher[r]]_vars

\* A run whose second evaluation is in flight.
C7_SecondEvaluationInFlight ==
    \E r \in Runs :
        /\ Count(r, "evaluate_started") = 2
        /\ Count(r, "evaluate_finished") = 1
        /\ launcher[r]

\* C8: finish(verdict) on a gate with no evaluation in flight is rejected:
\* no evaluate_finished event is emitted, the recorded verdict is unchanged.
C8_FinishWithoutEvaluateRejected ==
    [][(BisectRunner_evaluate /\ bisector # 0 /\ ~launcher[bisector]) =>
          /\ fault' = "AssertionError"
          /\ trace' = trace
          /\ verdict' = verdict
          /\ launcher' = launcher]_vars

\* finish() has been rejected on a gate on which evaluate() was never
\* called.
C8_FinishRejectedOnFreshGate ==
    /\ fault = "AssertionError"
    /\ bisector # 0
    /\ Count(bisector, "evaluate_started") = 0
    /\ verdict[bisector] = "None"

\* The first step of run r ended in init_handler with a terminal code.
FirstInitTerminal(r) ==
    /\ step_num[r] = 1
    /\ result[r] \in TerminalCodes
    /\ Count(r, "step_finished") = 0

\* C9: when init_handler answers a terminal code on the very first step,
\* exactly one finished event fires, with that code, and no download and
\* no evaluation is ever started for the run.
C9_FirstInitTerminalEndsRun ==
    \A r \in Runs : FirstInitTerminal(r) =>
        /\ Events(r, "finished") = <<EvFinished(result[r])>>
        /\ Count(r, "download_started") = 0
        /\ Count(r, "evaluate_started") = 0

\* Such a run, its finished event emitted.
C9_FirstInitTerminalSeen ==
    \E r \in Runs : FirstInitTerminal(r) /\ Count(r, "finished") = 1

\* The first search_mid_point of run r raised.
FirstSearchRaised(r) ==
    /\ step_num[r] = 1
    /\ result[r] = EXCEPTION

\* C10: when search_mid_point raises on the first call, finished fires once
\* with the exception code and no step index, the error is stored on the
\* run, and no download or evaluation event is ever observed.
C10_FirstSearchFailure ==
    \A r \in Runs : FirstSearchRaised(r) =>
        /\ Events(r, "finished") = <<EvFinished(EXCEPTION)>>
        /\ "index" \notin DOMAIN Events(r, "finished")[1]
        /\ error[r]
        /\ \A i \in 1..Len(trace[r]) :
              trace[r][i].type \notin
                  {"download_started", "download_finished",
                   "evaluate_started", "evaluate_finished"}

\* Such a run, with its error stored and its finished event queued.
C10_FirstSearchFailureSeen ==
    \E r \in Runs :
        /\ FirstSearchRaised(r)
        /\ error[r]
        /\ \E i \in 1..Len(mq) : mq[i] = Queued("finished", r, EXCEPTION)

\* The position of the first event of type t of run r (0 when there is none).
Pos(r, t) ==
    IF Count(r, t) = 0 THEN 0
    ELSE CHOOSE i \in 1..Len(trace[r]) :
            /\ trace[r][i].type = t
            /\ \A j \in 1..(i - 1) : trace[r][j].type # t

\* A run whose first init was running and whose handler gave a terminal
\* code after exactly one verdict.
OneVerdictRun(r) ==
    /\ result[r] \in TerminalCodes
    /\ step_num[r] = 1
    /\ Count(r, "step_finished") = 1

\* C11: a run with a running first init and a terminal result after exactly
\* one verdict has emitted exactly one step_build_found, one
\* download_finished, one evaluate_finished and one finished event, in that
\* order.
C11_OneStepOrder ==
    \A r \in Runs :
        OneVerdictRun(r) =>
            /\ \A t \in {"step_build_found", "download_finished",
                         "evaluate_finished", "finished"} : Count(r, t) = 1
            /\ Pos(r, "step_build_found") < Pos(r, "download_finished")
            /\ Pos(r, "download_finished") < Pos(r, "evaluate_finished")
            /\ Pos(r, "evaluate_finished") < Pos(r, "finished")

\* The main thread serves a queued finished signal in this step.
ServesFinished ==
    /\ mainpc = "idle"
    /\ mq # << >>
    /\ Head(mq).sig = "finished"
    /\ mq' = Tail(mq)

\* C12: bisection_finished shows the one dialog of the result code (warning
\* for no-data, critical for exception, information otherwise), raises
\* nothing and then calls stop(); when stop() returns the controller holds
\* no run handle and no worker thread.
C12_FinishedOutcome ==
    [][/\ ServesFinished =>
            /\ dialog' = dialog_for(Head(mq).code)
            /\ fault' = ""
            /\ bisector' = 0
            /\ mainpc' = "stop_join"
       /\ (mainpc = "stop_join" /\ mainpc' = "idle") =>
            /\ bisector' = 0
            /\ thread' = 0]_vars

\* C13 as stated: the first event of every run is started.
C13_StartedFirst ==
    \A r \in Runs : trace[r] # << >> => Head(trace[r]).type = "started"

\* C13, amended: bisect() posts GuiBisector.bisect and returns before it is
\* served (the new run has emitted nothing and its only posted slot is
\* bisect when BisectRunner.bisect returns); the first event of a run is
\* started, except for a run whose Bisector.bisect raised, whose only event
\* is finished with the exception code, at step index 0.
C13_StartedFirstUnlessStartRaised ==
    /\ [](\A r \in Runs :
            trace[r] # << >> =>
                \/ Head(trace[r]).type = "started"
                \/ /\ trace[r] = <<EvFinished(EXCEPTION)>>
                   /\ step_num[r] = 0
                   /\ error[r])
    /\ [][\A r \in Runs :
            (running[r] # "running" /\ running'[r] = "running") =>
                /\ wq'[r] = <<"bisect">>
                /\ trace'[r] = << >>
                /\ mainpc' = "idle"]_vars

\* A run has emitted started and then the step_started of its first step.
C13_StartedThenFirstStep ==
    \E r \in Runs :
        /\ Len(trace[r]) >= 2
        /\ trace[r][1].type = "started"
        /\ trace[r][2].type = "step_started"

\* In this step a download of run r completes: download_finished is emitted.
Completes(r) ==
    /\ Len(trace'[r]) = Len(trace[r]) + 1
    /\ trace'[r][Len(trace'[r])].type = "download_finished"
\* The download_finished event of that step.
Completed(r) == trace'[r][Len(trace'[r])]

\* The completion of this step is the one of the download that the current
\* step of run r has focused, without error and not cancelled.
CompletesFocused(r) ==
    /\ Completes(r)
    /\ running[r] = "running"
    /\ step_num[r] >= 1
    /\ Completed(r).dest = get_dest(mid[r])
    /\ ~Completed(r).canceled
    /\ ~Completed(r).error

\* C14: the successful completion of the focused download of a running
\* step always posts _evaluate, whenever it is delivered.
C14_FocusedCompletionEvaluated ==
    [][\A r \in Runs :
          CompletesFocused(r) => wq'[r] = Append(wq[r], "_evaluate")]_vars

\* In this step the manager used on its own signals the completion of a
\* download.
DlFinishes == lastCall'.op = "finished" /\ downloads' # downloads

\* C15: the completion of a download whose destination is not the one
\* recorded for the focused build posts no evaluation, queues no signal,
\* emits no event and leaves the step index, the midpoint, the build
\* descriptor and the gate unchanged.
C15_StaleCompletionIgnored ==
    [][(DlFinishes /\ lastCall'.build # build_path[1]) =>
            /\ wq' = wq
            /\ mq' = mq
            /\ trace' = trace
            /\ UNCHANGED <<seqVars, gateVars>>]_vars

\* A download that was neither cancelled nor in error has completed for a
\* destination other than the focused one.
C15_StaleSuccessfulCompletion ==
    /\ lastCall.op = "finished"
    /\ ~lastCall.canceled
    /\ ~lastCall.error
    /\ build_path[1] # 0
    /\ lastCall.build # build_path[1]

\* The current run r waits for a download that will not come: stop() has
\* not been called on it, its worker is idle with nothing posted, its step
\* has no evaluation in flight and no download of its focused destination
\* is still running.
Stalled(r) ==
    /\ bisector = r
    /\ running[r] = "running"
    /\ result[r] = RUNNING
    /\ step_num[r] >= 1
    /\ wpc[r] = "idle"
    /\ wq[r] = << >>
    /\ ~launcher[r]
    /\ \A dl \in downloads[r] : dl.dest = build_path[r] => dl.canceled

\* C16: the completion of the focused download with an error or cancelled
\* posts no evaluation, starts no download, queues no signal, emits no
\* event and leaves the sequencer and the gate unchanged; a run left
\* waiting that way stays so until stop() is called.
C16_FailedCompletionUnhandled ==
    [][\A r \in Runs :
          /\ (/\ Completes(r)
              /\ Completed(r).dest = build_path[r]
              /\ Completed(r).canceled \/ Completed(r).error) =>
                 /\ wq'[r] = wq[r]
                 /\ mq' = mq
                 /\ downloads'[r] \subseteq downloads[r]
                 /\ UNCHANGED <<seqVars, gateVars>>
          /\ Stalled(r) => Stalled(r)' \/ bisector' # r]_vars

\* The focused download of a running step has completed with an error and
\* the run is left waiting.
C16_StalledAfterError ==
    \E r \in Runs :
        /\ Stalled(r)
        /\ trace[r] # << >>
        /\ LET e == trace[r][Len(trace[r])]
           IN  /\ e.type = "download_finished"
               /\ e.dest = build_path[r]
               /\ e.error

\* The positions of the events of type t of run r, in order.
Positions(r, t) ==
    SelectSeq([i \in 1..Len(trace[r]) |-> i], LAMBDA i : trace[r][i].type = t)
\* The positions from a to b of run r that hold an event of type t.
In(r, t, a, b) == {i \in a..b : trace[r][i].type = t}

\* C17: the steps of a run follow one another. The step_started of step
\* k+1 comes after the step_finished of step k, with no finished event
\* before it; from the step_started of a step to its step_finished there is
\* exactly one download started and exactly one evaluation started (at most
\* one while the step is in flight), the download is the one of the step's
\* build and so is the build launched; every step_finished carries the
\* index of the step_started before it, and the last one the verdict that
\* finish() recorded.
C17_OneStepInFlight ==
    \A r \in Runs :
        LET SS == Positions(r, "step_started")
            FF == Positions(r, "step_finished")
            ns == Len(SS)
            nf == Len(FF)
            B(k) == IF k = ns THEN mid[r]
                    ELSE Events(r, "step_build_found")[k].build
        IN  /\ nf <= ns
            /\ ns <= nf + 1
            /\ \A k \in 1..ns :
                  LET end == IF k <= nf THEN FF[k] ELSE Len(trace[r])
                      dls == In(r, "download_started", SS[k], end)
                      evs == In(r, "evaluate_started", SS[k], end)
                  IN  /\ k > 1 => /\ FF[k - 1] < SS[k]
                                  /\ In(r, "finished", 1, SS[k]) = {}
                      /\ k <= nf =>
                            /\ SS[k] < FF[k]
                            /\ trace[r][FF[k]].index = trace[r][SS[k]].index
                            /\ Cardinality(dls) = 1
                            /\ Cardinality(evs) = 1
                      /\ Cardinality(dls) <= 1
                      /\ Cardinality(evs) <= 1
                      /\ \A i \in dls : trace[r][i].dest = get_dest(B(k))
                      /\ \A i \in In(r, "step_build_found", SS[k], end) :
                            trace[r][i].build = B(k)
                      /\ (k = ns /\ evs # {}) => app_info[r] = mid[r]
            /\ nf >= 1 => trace[r][FF[nf]].verdict = verdict[r]

\* A run has finished two steps.
C17_TwoStepsFinished ==
    \E r \in Runs : Count(r, "step_finished") >= 2

\* C18: when the user never calls stop(), no download fails and the event
\* loops are fair, every run that is running eventually emits finished, and
\* the controller eventually holds nothing.
C18_ForwardProgress ==
    \A r \in Runs :
        /\ (running[r] = "running") ~> (Count(r, "finished") >= 1)
        /\ (running[r] = "running") ~> ResourceFree

\* The main thread serves a queued evaluate_started signal in this step:
\* the signal leaves the queue, and finish() may queue a finished signal.
ServesEvaluateStarted ==
    /\ mainpc = "idle"
    /\ mq # << >>
    /\ Head(mq).sig = "evaluate_started"
    /\ \/ mq' = Tail(mq)
       \/ \E c \in TerminalCodes :
             mq' = Append(Tail(mq), Queued("finished", bisector, c))

\* C19: bisection_finished serves a finished signal only while the run
\* that emitted it is the current one: it never runs with the run handle
\* released and never stops another run.
C19_FinishedOfCurrentRun ==
    [][ServesFinished => bisector = Head(mq).run]_vars

\* C20: BisectRunner.evaluate hands the verdict to the gate of the run that
\* emitted evaluate_started: finish() is never called through a released
\* run handle nor on the gate of another run, and the gate it is called on
\* has an evaluation in flight.
C20_VerdictToEmittingGate ==
    [][ServesEvaluateStarted =>
            /\ bisector = Head(mq).run
            /\ launcher[bisector]]_vars

====
